---- MODULE Spec2Model ----
(***************************************************************************)
(* MssqlMcp/Node/src/index.ts: the MCP tool-call handler, the run wrapper  *)
(* installed by wrapToolRun, ensureSqlConnection and createSqlConfig,      *)
(* together with the three module-level globals they share.                *)
(*                                                                         *)
(* Scheduling.  Node runs one handler at a time; a handler gives up the    *)
(* thread only at an await.  An await on a promise that is already settled *)
(* (createSqlConfig in the windows/ntlm/sql/sqlserver branches, the        *)
(* promise of ensureSqlConnection once it has returned) resumes in the     *)
(* same microtask checkpoint, before any I/O callback and therefore before *)
(* any other call can observe a different value of the globals, so such a  *)
(* continuation belongs to the step that settled the promise.  An await on *)
(* I/O (credential.getToken, pool.close, sql.connect, the tool's query)    *)
(* is a real interleaving point and separates two steps of the model.      *)
(* The module's top-level code runs to completion before the event loop    *)
(* delivers the first message read from stdin: runServer() runs up to its  *)
(* await of server.connect, then the forEach patches the tools; the        *)
(* settlement of server.connect is observed at the microtask checkpoint    *)
(* that ends the script, and request handlers run after it.                *)
(***************************************************************************)
EXTENDS Integers, FiniteSets, Sequences, TLC

\* ---------------------------------------------------------------- bounds
MaxCalls == 2
MaxTicks == 1

\* ------------------------------------------------------------- constants
Null == 0
RefreshSkew == 2 * 60 * 1000
DefaultTokenLifetime == 30 * 60 * 1000

Calls == 1..MaxCalls

\* Lifetimes the identity provider may give a token (milliseconds).
Lifetimes == {90 * 1000, RefreshSkew + 1}

\* Raw values of process.env.AUTH_TYPE; "" stands for an unset variable
\* (undefined and "" are both falsy in `?.toLowerCase() || "azure"`).
RawAuthTypes == {"", "azure", "Windows", "ntlm", "SQL", "sqlserver", "kerberos"}
\* An explicit "azure" and an unset AUTH_TYPE give the same authType at
\* lines 46 and 251, the only places that read the variable; the lifecycle
\* is explored from the unset one.
LifecycleAuthTypes == RawAuthTypes \ {"azure"}
RawReadOnly == {"true", "false"}
\* Raw values of TRUST_SERVER_CERTIFICATE, CONNECTION_TIMEOUT, SERVER_NAME
\* and DATABASE_NAME; "" stands for an unset variable.
RawTrust == {"", "true", "TRUE", "false"}
RawTimeouts == {"", "15", "60", "15s"}
RawServers == {"localhost", "x.database.windows.net"}
RawDatabases == {"db"}

ToolNames ==
  {"insert_data", "read_data", "update_data", "create_table", "create_index",
   "list_table", "drop_table", "describe_table"}
RequestNames == ToolNames \cup {"no_such_tool"}
\* Mutant of PatchedTools: describeTableTool is left out of the array.
PatchedTools_NoDescribe ==
  {"insert_data", "read_data", "update_data", "create_table", "create_index",
   "drop_table", "list_table"}
\* The array whose elements wrapToolRun patches.
PatchedTools ==
  {"insert_data", "read_data", "update_data", "create_table", "create_index",
   "drop_table", "list_table", "describe_table"}
Predicates == {"absent", "trivial", "real"}
\* arguments of a request: whether args.tableName is a string, and the
\* filter predicate the caller supplied
ArgValues == [tableName : BOOLEAN, pred : Predicates]

VARIABLES
  env,                   \* process.env, read-only after start
  main,                  \* where the module's top-level code stands
  wrapped,               \* the tools whose run has been patched
  resolved,              \* what a createSqlConfig called on its own returned
  globalSqlPool,         \* handle of the shared pool, Null when none
  globalAccessToken,     \* cached bearer token, Null when none
  globalTokenExpiresOn,  \* cached expiry instant, Null when none
  connected,             \* handles whose pool.connected is true
  opened,                \* number of pools sql.connect has produced
  minted,                \* number of tokens getToken has produced
  now,                   \* Date.now()
  ticks,                 \* clock advances so far
  call,                  \* per request: position in the handler and its locals
  last,                  \* the request received in the step just taken, if any
  reply,                 \* the envelope returned in the step just taken, if any
  listed,                \* the tools listed in the step just taken, if any
  nResolve,              \* createSqlConfig invocations
  nClose,                \* pool.close invocations
  nConnect               \* sql.connect invocations

globals == <<globalSqlPool, globalAccessToken, globalTokenExpiresOn>>
counters == <<nResolve, nClose, nConnect>>
clock == <<now, ticks>>
io == <<last, reply, listed>>
boot == <<main, wrapped>>
vars ==
  <<env, boot, resolved, globals, connected, opened, minted, clock, call, io,
    counters>>

\* ------------------------------------------------------ pure definitions
ToLowerCase(s) ==
  CASE s = "Windows" -> "windows"
    [] s = "SQL" -> "sql"
    [] s = "TRUE" -> "true"
    [] OTHER -> s

\* parseInt(s, 10) of the strings in RawTimeouts: the leading digits.
ParseInt(s) ==
  CASE s = "15" -> 15
    [] s = "60" -> 60
    [] s = "15s" -> 15

\* String.prototype.includes("database.windows.net") on RawServers.
IncludesAzureHost(s) == s = "x.database.windows.net"

CfgAuthType(e) ==
  IF ToLowerCase(e.AUTH_TYPE) = "" THEN "azure" ELSE ToLowerCase(e.AUTH_TYPE)

EnsureAuthType(e) ==
  IF ToLowerCase(e.AUTH_TYPE) = "" THEN "azure" ELSE ToLowerCase(e.AUTH_TYPE)

isReadOnly == env.READONLY = "true"

\* The branch of the switch in createSqlConfig.
CfgBranch(e) ==
  CASE CfgAuthType(e) \in {"windows", "ntlm"} -> "windows"
    [] CfgAuthType(e) \in {"sql", "sqlserver"} -> "sql"
    [] OTHER -> "azure"

\* createSqlConfig resolves without awaiting I/O in the windows and sql
\* branches; the azure/default branch awaits credential.getToken.
CfgAwaitsToken(e) == CfgBranch(e) = "azure"

\* `accessToken?.token`, `accessToken?.expiresOnTimestamp` of a getToken
\* that resolved to nothing.
NoToken == [ok |-> TRUE, token |-> Null, expiresOnTimestamp |-> 0]

\* What credential.getToken can settle to at instant t, the next token
\* being k: a rejection, nothing, or an AccessToken whose
\* expiresOnTimestamp is present (t + a lifetime) or absent (0).
GetTokenOutcomes(t, k) ==
  {[ok |-> FALSE, token |-> Null, expiresOnTimestamp |-> 0], NoToken}
    \cup {[ok |-> TRUE, token |-> k, expiresOnTimestamp |-> t + l] : l \in Lifetimes}
    \cup {[ok |-> TRUE, token |-> k, expiresOnTimestamp |-> 0]}

\* lines 41-45 of createSqlConfig.
TrustServerCertificate(e) == ToLowerCase(e.TRUST_SERVER_CERTIFICATE) = "true"
ConnectionTimeout(e) ==
  IF e.CONNECTION_TIMEOUT # "" THEN ParseInt(e.CONNECTION_TIMEOUT) ELSE 30

\* baseConfig (lines 48-56); auth and token stand for the `authentication`
\* (or user/password) part a branch adds.
BaseConfig(e) ==
  [server |-> e.SERVER_NAME,
   database |-> e.DATABASE_NAME,
   encrypt |-> TRUE,
   trustServerCertificate |-> TrustServerCertificate(e),
   connectionTimeout |-> ConnectionTimeout(e) * 1000,
   auth |-> "none",
   token |-> Null]

\* What a rejected createSqlConfig leaves in place of a descriptor.
Rejected(error) ==
  [ok |-> FALSE, err |-> error, config |-> [auth |-> "none", token |-> Null],
   token |-> Null, expiresOn |-> Null]

\* Mutant of createSqlConfig: the sql branch does not look at the
\* credentials.
createSqlConfig_NoCredentialCheck(e, g, t) ==
  CASE CfgBranch(e) = "windows" ->
         [ok |-> TRUE, err |-> "",
          config |-> [BaseConfig(e) EXCEPT
                        !.encrypt = IncludesAzureHost(e.SERVER_NAME),
                        !.trustServerCertificate = TRUE,
                        !.auth = "windows"],
          token |-> Null, expiresOn |-> Null]
    [] CfgBranch(e) = "sql" ->
         [ok |-> TRUE, err |-> "",
          config |-> [BaseConfig(e) EXCEPT !.auth = "sql"],
          token |-> Null, expiresOn |-> Null]
    [] OTHER ->
         IF ~g.ok
         THEN Rejected("getToken rejected")
         ELSE [ok |-> TRUE, err |-> "",
               config |-> [BaseConfig(e) EXCEPT
                             !.auth = "azure-active-directory-access-token",
                             !.token = g.token],
               token |-> g.token,
               expiresOn |-> IF g.expiresOnTimestamp # 0
                             THEN g.expiresOnTimestamp
                             ELSE t + DefaultTokenLifetime]

\* createSqlConfig: g is what getToken settled to (used by the azure branch
\* only), t is Date.now() when it settles.
createSqlConfig(e, g, t) ==
  CASE CfgBranch(e) = "windows" ->
         [ok |-> TRUE, err |-> "",
          config |-> [BaseConfig(e) EXCEPT
                        !.encrypt = IncludesAzureHost(e.SERVER_NAME),
                        !.trustServerCertificate = TRUE,
                        !.auth = "windows"],
          token |-> Null, expiresOn |-> Null]
    [] CfgBranch(e) = "sql" ->
         IF e.SQL_USERNAME = "" \/ e.SQL_PASSWORD = ""
         THEN Rejected("SQL_USERNAME and SQL_PASSWORD required")
         ELSE [ok |-> TRUE, err |-> "",
               config |-> [BaseConfig(e) EXCEPT !.auth = "sql"],
               token |-> Null, expiresOn |-> Null]
    [] OTHER ->
         IF ~g.ok
         THEN Rejected("getToken rejected")
         ELSE [ok |-> TRUE, err |-> "",
               config |-> [BaseConfig(e) EXCEPT
                             !.auth = "azure-active-directory-access-token",
                             !.token = g.token],
               token |-> g.token,
               expiresOn |-> IF g.expiresOnTimestamp # 0
                             THEN g.expiresOnTimestamp
                             ELSE t + DefaultTokenLifetime]

\* ------------------------------------------------------------- envelopes
NoEnvelope == [pending |-> TRUE]
UnknownToolEnvelope(name) ==
  [content |-> <<"Unknown tool: ", name>>, isError |-> TRUE]
InvalidTableNameEnvelope ==
  [content |-> <<"Missing or invalid 'tableName' argument for describe_table tool.", "">>,
   isError |-> TRUE]
ResultEnvelope(result) == [content |-> <<"JSON.stringify", result>>]
\* Mutant of CaughtEnvelope: the error flag is left out.
CaughtEnvelope_NoFlag(error) == [content |-> <<"Error occurred: ", error>>]
CaughtEnvelope(error) ==
  [content |-> <<"Error occurred: ", error>>, isError |-> TRUE]

\* ------------------------------------------------------------ call state
\* pc: where the request stands; cfgToken: the token inside the local
\* `config`.  History kept for the properties: path (which way
\* ensureSqlConnection went), margin (expiry minus Date.now() at the reuse
\* test, when a connected pool and a cached lease existed), oldPool (the
\* shared pool at the reuse test), used (the pool the tool body works
\* against).
IdleCall ==
  [pc |-> "idle", cfgToken |-> Null, path |-> "none", margin |-> <<>>,
   oldPool |-> Null, used |-> Null]
DoneCall == [IdleCall EXCEPT !.pc = "done"]

NoRequest == [name |-> "", pred |-> "absent"]
\* err: the failure that ended the request, "" when the tool returned
NoReply == [out |-> NoEnvelope, err |-> ""]

\* The descriptor variable before any createSqlConfig has been called on
\* its own.
NoDescriptor == [ok |-> FALSE, err |-> "not called"]

\* The state when index.ts has run down to line 242: tools and server
\* constructed, both request handlers registered.  The connection's base
\* fields play no part in the lifecycle and are held to one value each
\* here; ConfigSpec below varies them.
Init ==
  /\ env \in [AUTH_TYPE : LifecycleAuthTypes, READONLY : RawReadOnly,
              SQL_USERNAME : {"", "sa"}, SQL_PASSWORD : {"", "pw"},
              TRUST_SERVER_CERTIFICATE : {"false"}, CONNECTION_TIMEOUT : {""},
              SERVER_NAME : {"localhost"}, DATABASE_NAME : RawDatabases]
  \* SQL_USERNAME and SQL_PASSWORD are read in the sql branch only
  /\ CfgBranch(env) # "sql" => env.SQL_USERNAME = "sa" /\ env.SQL_PASSWORD = "pw"
  /\ main = "runServer"
  /\ wrapped = {}
  /\ resolved = NoDescriptor
  /\ listed = {}
  /\ globalSqlPool = Null
  /\ globalAccessToken = Null
  /\ globalTokenExpiresOn = Null
  /\ connected = {}
  /\ opened = 0
  /\ minted = 0
  /\ now = 0
  /\ ticks = 0
  /\ call = [p \in Calls |-> IdleCall]
  /\ last = NoRequest
  /\ reply = NoReply
  /\ nResolve = 0
  /\ nClose = 0
  /\ nConnect = 0

\* ------------------------------------------------- ensureSqlConnection
PoolConnected == globalSqlPool # Null /\ globalSqlPool \in connected

\* Mutants of LeaseValid: the comparison turned round, and the boundary
\* instant counted as still valid.
LeaseValid_Inverted ==
  /\ globalAccessToken # Null
  /\ globalTokenExpiresOn # Null
  /\ globalTokenExpiresOn < now + RefreshSkew
LeaseValid_Inclusive ==
  /\ globalAccessToken # Null
  /\ globalTokenExpiresOn # Null
  /\ globalTokenExpiresOn >= now + RefreshSkew

\* lines 298-300: a cached token and expiry, the expiry more than the
\* two-minute buffer ahead of Date.now()
LeaseValid ==
  /\ globalAccessToken # Null
  /\ globalTokenExpiresOn # Null
  /\ globalTokenExpiresOn > now + RefreshSkew

\* Mutant of Reusable: the lease is looked at in every mode.
Reusable_LeaseInEveryMode == PoolConnected /\ LeaseValid

\* The early returns of ensureSqlConnection (lines 254-257 and 295-303).
Reusable ==
  IF EnsureAuthType(env) # "azure"
  THEN PoolConnected
  ELSE PoolConnected /\ LeaseValid

\* What the globals become when createSqlConfig has resolved to r: the
\* azure path caches `token || null` and `expiresOn || null`, the other
\* path destructures `config` alone.
CacheLease(r) ==
  IF EnsureAuthType(env) = "azure"
  THEN /\ globalAccessToken' = r.token
       /\ globalTokenExpiresOn' = r.expiresOn
  ELSE UNCHANGED <<globalAccessToken, globalTokenExpiresOn>>

\* The handler's catch clause (lines 224-229): request p ends with the
\* error envelope.
Caught(p, error) ==
  /\ call' = [call EXCEPT ![p] = DoneCall]
  /\ reply' = [out |-> CaughtEnvelope(error), err |-> error]

\* Mutant of CloseOrConnect: the old pool is left open.
CloseOrConnect_NoClose(p, c, r) ==
  /\ connected' = connected
  /\ nClose' = nClose
  /\ nConnect' = nConnect + 1
  /\ call' = [call EXCEPT ![p] =
                [c EXCEPT !.pc = "connect", !.cfgToken = r.config.token]]

\* "Close old pool if exists" and sql.connect (lines 262-270, 310-315),
\* up to the first await: c is p's record, r the resolved configuration.
\* pool.close() clears pool.connected as soon as it is called.
CloseOrConnect(p, c, r) ==
  IF PoolConnected
  THEN /\ connected' = connected \ {globalSqlPool}
       /\ nClose' = nClose + 1
       /\ nConnect' = nConnect
       /\ call' = [call EXCEPT ![p] =
                     [c EXCEPT !.pc = "close", !.cfgToken = r.config.token]]
  ELSE /\ connected' = connected
       /\ nClose' = nClose
       /\ nConnect' = nConnect + 1
       /\ call' = [call EXCEPT ![p] =
                     [c EXCEPT !.pc = "connect", !.cfgToken = r.config.token]]

\* What request p records of the globals at the reuse test.
AtReuseTest(p) ==
  [call[p] EXCEPT
     !.margin = IF PoolConnected /\ globalAccessToken # Null
                   /\ globalTokenExpiresOn # Null
                THEN <<globalTokenExpiresOn - now>> ELSE <<>>,
     !.oldPool = globalSqlPool]

\* ensureSqlConnection from its first line to its first await on I/O, as
\* called by the wrapper (lines 321-324) for request p; originalRun starts
\* in the same step when the connection is reused.
ensureSqlConnection(p) ==
  IF Reusable
  THEN /\ call' = [call EXCEPT ![p] =
                     [AtReuseTest(p) EXCEPT !.pc = "body", !.path = "reuse",
                                            !.used = globalSqlPool]]
       /\ reply' = NoReply
       /\ UNCHANGED <<globals, connected, counters>>
  ELSE LET d == [AtReuseTest(p) EXCEPT !.path = "renew"] IN
       /\ nResolve' = nResolve + 1
       /\ IF CfgAwaitsToken(env)
          THEN /\ call' = [call EXCEPT ![p] = [d EXCEPT !.pc = "config"]]
               /\ reply' = NoReply
               /\ UNCHANGED <<globals, connected, nClose, nConnect>>
          ELSE LET r == createSqlConfig(env, NoToken, now) IN
               IF r.ok
               THEN /\ CacheLease(r)
                    /\ CloseOrConnect(p, d, r)
                    /\ reply' = NoReply
                    /\ UNCHANGED globalSqlPool
               ELSE /\ Caught(p, r.err)
                    /\ UNCHANGED <<globals, connected, nClose, nConnect>>

\* --------------------------------------------------- tool-call handler
\* tool.run(args) for request p (lines 321-324): the patched run calls
\* ensureSqlConnection first, an unpatched one is the tool's own run.
Run(p, name) ==
  IF name \in wrapped
  THEN ensureSqlConnection(p)
  ELSE /\ call' = [call EXCEPT ![p] =
                     [@ EXCEPT !.pc = "body", !.used = globalSqlPool]]
       /\ reply' = NoReply
       /\ UNCHANGED <<globals, connected, counters>>

ValidTableName(args) == args.tableName

\* The filter predicate is an argument of the read and update tools only.
Request(name, args) ==
  [name |-> name,
   pred |-> IF name \in {"read_data", "update_data"} THEN args.pred ELSE "absent"]

\* The argument values that make a difference to a request for name.
ArgsFor(name) ==
  CASE name \in {"read_data", "update_data"} ->
         {a \in ArgValues : a.tableName}
    [] name = "describe_table" -> {a \in ArgValues : a.pred = "absent"}
    [] OTHER -> {a \in ArgValues : a.tableName /\ a.pred = "absent"}

\* An early return of the handler with an error envelope.
Refused(p, envelope, error) ==
  /\ call' = [call EXCEPT ![p] = DoneCall]
  /\ reply' = [out |-> envelope, err |-> error]
  /\ UNCHANGED <<globals, connected, counters>>

\* Mutant of HandlerSwitch: no default case, an unregistered name falls
\* through to the connection step.
HandlerSwitch_NoDefault(p, name, args) ==
  IF name = "describe_table" /\ ~ValidTableName(args)
  THEN Refused(p, InvalidTableNameEnvelope, "invalid tableName")
  ELSE Run(p, name)

\* switch (name) of the handler (lines 179-220): every registered tool's
\* patched run is called with the arguments as given; describe_table is
\* refused without a string tableName; any other name is refused.
HandlerSwitch(p, name, args) ==
  IF name \notin ToolNames
  THEN Refused(p, UnknownToolEnvelope(name), "unknown tool")
  ELSE IF name = "describe_table" /\ ~ValidTableName(args)
  THEN Refused(p, InvalidTableNameEnvelope, "invalid tableName")
  ELSE Run(p, name)

\* runServer() (line 243) runs to its await of server.connect(transport).
RunServer ==
  /\ main = "runServer"
  /\ main' = "forEach"
  /\ UNCHANGED <<env, wrapped, resolved, globals, connected, opened, minted,
                 clock, call, io, counters>>

\* The forEach of lines 327-336 patches every tool's run, which ends the
\* script; server.connect has then resolved (ok) and the server takes
\* requests, or it has rejected and the process exits.
WrapTools(ok) ==
  /\ main = "forEach"
  /\ wrapped' = PatchedTools
  /\ main' = IF ok THEN "loop" ELSE "exit"
  /\ UNCHANGED <<env, resolved, globals, connected, opened, minted, clock,
                 call, io, counters>>

\* The tools the ListTools handler returns (lines 161-172).
ListedTools ==
  IF isReadOnly THEN {"list_table", "read_data", "describe_table"} ELSE ToolNames

\* Mutant of ListTools: the handler opens the connection.
ListTools_Eager ==
  /\ main = "loop"
  /\ listed' = ListedTools
  /\ last' = NoRequest
  /\ reply' = NoReply
  /\ nResolve' = nResolve + 1
  /\ nConnect' = nConnect + 1
  /\ UNCHANGED <<env, boot, resolved, globals, connected, opened, minted,
                 clock, call, nClose>>

\* server.setRequestHandler(ListToolsRequestSchema, ...) answers a request.
ListTools ==
  /\ main = "loop"
  /\ listed' = ListedTools
  /\ last' = NoRequest
  /\ reply' = NoReply
  /\ UNCHANGED <<env, boot, resolved, globals, connected, opened, minted,
                 clock, call, counters>>

\* server.setRequestHandler(CallToolRequestSchema, ...) receives request p
\* (requests are numbered in the order they arrive).
CallTool(p, name, args) ==
  /\ main = "loop"
  /\ call[p].pc = "idle"
  /\ \A q \in Calls : q < p => call[q].pc # "idle"
  /\ last' = Request(name, args)
  /\ listed' = {}
  /\ UNCHANGED <<env, boot, resolved, opened, minted, clock>>
  /\ HandlerSwitch(p, name, args)

\* credential.getToken settles to g; createSqlConfig resolves or rejects
\* and ensureSqlConnection continues to its next await.
ConfigResolved(p, g) ==
  /\ call[p].pc = "config"
  /\ last' = NoRequest
  /\ listed' = {}
  /\ UNCHANGED <<env, boot, resolved, opened, clock, nResolve>>
  /\ minted' = IF g.token # Null THEN minted + 1 ELSE minted
  /\ LET r == createSqlConfig(env, g, now) IN
     IF r.ok
     THEN /\ CacheLease(r)
          /\ CloseOrConnect(p, call[p], r)
          /\ reply' = NoReply
          /\ UNCHANGED globalSqlPool
     ELSE /\ Caught(p, r.err)
          /\ UNCHANGED <<globals, connected, nClose, nConnect>>

\* pool.close() settles.
CloseSettled(p, ok) ==
  /\ call[p].pc = "close"
  /\ last' = NoRequest
  /\ listed' = {}
  /\ UNCHANGED <<env, boot, resolved, globals, connected, opened, minted, clock, nResolve, nClose>>
  /\ IF ok
     THEN /\ nConnect' = nConnect + 1
          /\ call' = [call EXCEPT ![p].pc = "connect"]
          /\ reply' = NoReply
     ELSE /\ nConnect' = nConnect
          /\ Caught(p, "close failed")

\* Mutant of ConnectSettled: a failed sql.connect is tried again.
ConnectSettled_Retry(p, ok) ==
  /\ call[p].pc = "connect"
  /\ last' = NoRequest
  /\ listed' = {}
  /\ UNCHANGED <<env, boot, resolved, globalAccessToken, globalTokenExpiresOn,
                 minted, clock, nResolve, nClose>>
  /\ IF ok
     THEN /\ opened' = opened + 1
          /\ connected' = connected \cup {opened + 1}
          /\ globalSqlPool' = opened + 1
          /\ nConnect' = nConnect
          /\ call' = [call EXCEPT ![p] =
                        [@ EXCEPT !.pc = "body", !.used = opened + 1]]
          /\ reply' = NoReply
     ELSE /\ UNCHANGED <<opened, connected, globalSqlPool, call>>
          /\ nConnect' = nConnect + 1
          /\ reply' = NoReply

\* sql.connect(config) settles; on success the new pool is installed,
\* ensureSqlConnection returns and the wrapper calls originalRun.
ConnectSettled(p, ok) ==
  /\ call[p].pc = "connect"
  /\ last' = NoRequest
  /\ listed' = {}
  /\ UNCHANGED <<env, boot, resolved, globalAccessToken, globalTokenExpiresOn, minted, clock, counters>>
  /\ IF ok
     THEN /\ opened' = opened + 1
          /\ connected' = connected \cup {opened + 1}
          /\ globalSqlPool' = opened + 1
          /\ call' = [call EXCEPT ![p] =
                        [@ EXCEPT !.pc = "body", !.used = opened + 1]]
          /\ reply' = NoReply
     ELSE /\ UNCHANGED <<opened, connected, globalSqlPool>>
          /\ Caught(p, "connect failed")

\* originalRun settles: the tool returned result, or threw.
ToolResults == {"rows"}
ToolSettled(p, ok, result) ==
  /\ call[p].pc = "body"
  /\ last' = NoRequest
  /\ listed' = {}
  /\ UNCHANGED <<env, boot, resolved, globals, connected, opened, minted, clock, counters>>
  /\ IF ok
     THEN /\ call' = [call EXCEPT ![p] = DoneCall]
          /\ reply' = [out |-> ResultEnvelope(result), err |-> ""]
     ELSE Caught(p, "tool failed")

\* The wall clock advances by a millisecond.
Tick ==
  /\ ticks < MaxTicks
  /\ now' = now + 1
  /\ ticks' = ticks + 1
  /\ last' = NoRequest
  /\ listed' = {}
  /\ reply' = NoReply
  /\ UNCHANGED <<env, boot, resolved, globals, connected, opened, minted, call, counters>>

Next ==
  \/ RunServer
  \/ \E ok \in BOOLEAN : WrapTools(ok)
  \/ ListTools
  \/ \E p \in Calls, name \in RequestNames : \E args \in ArgsFor(name) : CallTool(p, name, args)
  \/ \E p \in Calls : \E g \in GetTokenOutcomes(now, minted + 1) : ConfigResolved(p, g)
  \/ \E p \in Calls, ok \in BOOLEAN : CloseSettled(p, ok)
  \/ \E p \in Calls, ok \in BOOLEAN : ConnectSettled(p, ok)
  \/ \E p \in Calls, ok \in BOOLEAN, result \in ToolResults : ToolSettled(p, ok, result)
  \/ Tick

Spec == Init /\ [][Next]_vars

\* ------------------------------------------- createSqlConfig on its own
\* createSqlConfig is exported; ConfigSpec applies it to every environment.
ConfigInit ==
  /\ env \in [AUTH_TYPE : RawAuthTypes, READONLY : {"false"},
              SQL_USERNAME : {"", "sa"}, SQL_PASSWORD : {"", "pw"},
              TRUST_SERVER_CERTIFICATE : RawTrust,
              CONNECTION_TIMEOUT : RawTimeouts,
              SERVER_NAME : RawServers, DATABASE_NAME : RawDatabases]
  /\ CfgBranch(env) # "sql" => env.SQL_USERNAME = "sa" /\ env.SQL_PASSWORD = "pw"
  /\ main = "runServer"
  /\ wrapped = {}
  /\ resolved = NoDescriptor
  /\ listed = {}
  /\ globalSqlPool = Null
  /\ globalAccessToken = Null
  /\ globalTokenExpiresOn = Null
  /\ connected = {}
  /\ opened = 0
  /\ minted = 0
  /\ now = 0
  /\ ticks = 0
  /\ call = [p \in Calls |-> IdleCall]
  /\ last = NoRequest
  /\ reply = NoReply
  /\ nResolve = 0
  /\ nClose = 0
  /\ nConnect = 0

\* A caller awaits createSqlConfig(); getToken settles to g.
Resolve(g) ==
  /\ resolved' = createSqlConfig(env, g, now)
  /\ UNCHANGED <<env, boot, globals, connected, opened, minted, clock, call,
                 io, counters>>

ConfigNext == \E g \in GetTokenOutcomes(now, minted + 1) : Resolve(g)

ConfigSpec == ConfigInit /\ [][ConfigNext]_vars

TypeOK ==
  /\ main \in {"runServer", "forEach", "loop", "exit"}
  /\ wrapped \in {{}, PatchedTools}
  /\ globalSqlPool \in 0..opened
  /\ connected \subseteq 1..opened
  /\ \A p \in Calls : call[p].pc \in {"idle", "config", "close", "connect", "body", "done"}

\* ------------------------------------------------------------ properties
\* The tools left out of the read-only list of the ListTools handler.
MutatingTools ==
  {"insert_data", "update_data", "create_table", "create_index", "drop_table"}
\* The tools whose operation takes a filter predicate.
PredicateTools == {"read_data", "update_data"}

\* The request that arrived last.
LatestCall ==
  CHOOSE p \in Calls :
    call[p].pc # "idle" /\ \A q \in Calls : q > p => call[q].pc = "idle"

\* Request p is inside ensureSqlConnection, at one of its awaits.
InEnsure(p) == call[p].pc \in {"config", "close", "connect"}

\* In this step the handler received request p and its wrapper called
\* ensureSqlConnection.
EnsureCalled(p) ==
  /\ call[p].pc = "idle"
  /\ call'[p].pc # "idle"
  /\ reply'.err \notin {"unknown tool", "invalid tableName"}

\* In this step the ensureSqlConnection of request p raised.
EnsureFailed(p) ==
  /\ call[p].pc \in {"idle", "config", "close", "connect"}
  /\ call'[p].pc = "done"
  /\ reply'.err \in {"SQL_USERNAME and SQL_PASSWORD required", "getToken rejected",
                     "close failed", "connect failed"}

\* C1: while the requests received so far are all still inside
\* ensureSqlConnection (none has obtained a connection yet), no more than
\* one sql.connect has been made for them.
C1_SingleFlightConnect ==
  (\A p \in Calls : call[p].pc = "idle" \/ InEnsure(p)) => nConnect <= 1

\* C2: in read-only mode a request for a mutating tool is answered with the
\* unknown-tool error envelope and its tool body does not run.
C2_ReadOnlyRefusesMutating ==
  (isReadOnly /\ last.name \in MutatingTools) =>
    /\ reply.out = UnknownToolEnvelope(last.name)
    /\ call[LatestCall].pc = "done"

\* C3: a read or update request whose filter predicate is absent or
\* always true is failed with MissingPredicate and its tool body does not
\* run.
C3_MissingPredicateRefused ==
  (last.name \in PredicateTools /\ last.pred \in {"absent", "trivial"}) =>
    /\ reply.err = "MissingPredicate"
    /\ call[LatestCall].pc = "done"

\* C4: the pool a running tool body works against exists and reports
\* connected, from the moment the body starts until it settles.
C4_LiveWhileInUse ==
  \A p \in Calls :
    call[p].pc = "body" => call[p].used # Null /\ call[p].used \in connected

\* The shared pool is connected and, in federated mode, the cached lease
\* is valid.
C5_Pre ==
  /\ globalSqlPool # Null
  /\ globalSqlPool \in connected
  /\ CfgBranch(env) = "azure" =>
       /\ globalAccessToken # Null
       /\ globalTokenExpiresOn # Null
       /\ globalTokenExpiresOn - now > RefreshSkew
\* C5: when the pool is connected and (federated mode) the cached lease is
\* valid, a call of ensureSqlConnection resolves nothing, closes nothing,
\* connects nothing and leaves pool, token and expiry as they were, so that
\* the same holds of the call that follows it.
C5_ReuseIsIdempotent ==
  [][\A p \in Calls :
       (C5_Pre /\ EnsureCalled(p)) =>
         /\ call'[p].pc = "body"
         /\ call'[p].used = globalSqlPool
         /\ UNCHANGED <<globals, connected, opened, minted, counters>>
         /\ C5_Pre']_vars
C5_Witness ==
  \E p \in Calls :
    /\ call[p].pc = "body" /\ call[p].path = "reuse"
    /\ EnsureAuthType(env) = "azure" /\ globalAccessToken # Null
    /\ nResolve = 1 /\ nConnect = 1 /\ nClose = 0

\* C6: with a connected pool and a cached token, an expiry exactly
\* RefreshSkew ahead of now makes ensureSqlConnection renew, and an expiry
\* one millisecond further ahead makes it reuse the pool.
C6_ExpiryBoundary ==
  \A p \in Calls :
    /\ call[p].margin = <<RefreshSkew>> => call[p].path = "renew"
    /\ call[p].margin = <<RefreshSkew + 1>> =>
         call[p].path = "reuse" /\ call[p].pc = "body"
C6_Witness ==
  \E p \in Calls :
    /\ call[p].margin = <<RefreshSkew>>
    /\ call[p].path = "renew" /\ call[p].pc = "body"
    /\ nConnect = 2

\* C7: a failed ensureSqlConnection leaves a state from which the next
\* call renews instead of reusing.
C7_FailureLeavesRetryable ==
  [][\A p \in Calls : EnsureFailed(p) => ~Reusable']_vars

\* The envelope returned in the step just taken is well formed.
C8_Envelope ==
  /\ reply.err # "" =>
       /\ DOMAIN reply.out = {"content", "isError"}
       /\ reply.out.isError
       /\ CASE reply.err = "unknown tool" -> reply.out.content[1] = "Unknown tool: "
            [] reply.err = "invalid tableName" -> reply.out = InvalidTableNameEnvelope
            [] OTHER -> reply.out.content = <<"Error occurred: ", reply.err>>
  /\ (reply.err = "" /\ reply # NoReply) =>
       /\ DOMAIN reply.out = {"content"}
       /\ reply.out.content[1] = "JSON.stringify"
       /\ reply.out.content[2] \in ToolResults
\* C8: whatever ends a request, the handler returns an envelope: a failure
\* gives isError = true with the failure's message, a tool result gives an
\* envelope without isError that carries the result.
C8_DispatchNeverThrows ==
  [][/\ C8_Envelope'
     /\ \A p \in Calls :
          (call[p].pc # "done" /\ call'[p].pc = "done") =>
            (reply' # NoReply /\ "content" \in DOMAIN reply'.out)]_vars
C8_Witness ==
  /\ reply.err = "close failed"
  /\ DOMAIN reply.out = {"content", "isError"}
  /\ \E p \in Calls : call[p].pc = "body"

\* C9: a request for an unregistered name is answered with an error
\* envelope; pool, token, expiry are left alone and nothing is resolved,
\* closed or connected.
C9_UnknownToolNoEffect ==
  [][(last' # NoRequest /\ last'.name \notin ToolNames) =>
       /\ "isError" \in DOMAIN reply'.out
       /\ reply'.out.isError
       /\ UNCHANGED <<globals, connected, opened, minted, counters>>]_vars
C9_Witness ==
  /\ last.name = "no_such_tool"
  /\ reply.out = UnknownToolEnvelope("no_such_tool")
  /\ PoolConnected
  /\ globalAccessToken # Null

\* Request p found a connected pool whose lease was 90 seconds from expiry.
C10_Scenario(p) == call[p].margin = <<90 * 1000>>
\* What the steps of such a request do.
C10_Step(p) ==
  /\ (call[p].pc = "config" /\ call'[p].pc \in {"close", "connect"}) =>
       /\ call'[p].cfgToken # Null =>
            /\ call'[p].cfgToken \notin 0..minted
            /\ globalAccessToken' = call'[p].cfgToken
       /\ globalTokenExpiresOn' > now
       /\ globalSqlPool \notin connected'
       /\ PoolConnected => (call'[p].pc = "close" /\ nClose' = nClose + 1)
  /\ (call[p].pc # "connect" /\ call'[p].pc = "connect") =>
       /\ call[p].oldPool # Null
       /\ globalSqlPool = call[p].oldPool => call[p].oldPool \notin connected'
       /\ nConnect' = nConnect + 1
  /\ (call[p].pc = "connect" /\ call'[p].pc = "body") =>
       /\ globalSqlPool' = call'[p].used
       /\ globalSqlPool' \notin 0..opened
       /\ globalSqlPool' \in connected'
       /\ globalTokenExpiresOn' # Null
\* C10: federated mode, connected pool, lease 90 seconds from expiry: the
\* call renews; it caches the token and expiry it resolves; it closes the
\* shared pool when that is connected and calls sql.connect only once the
\* close has settled, so that the pool it found at the reuse test, while
\* still the installed one, is closed before sql.connect is called; when
\* sql.connect succeeds the new pool is installed and connected, with a
\* fresh lease cached.
C10_FederatedRefresh ==
  [][\A p \in Calls :
       /\ C10_Scenario(p)' => call'[p].path = "renew"
       /\ C10_Scenario(p) => C10_Step(p)]_vars
C10_Witness ==
  \E p \in Calls :
    /\ C10_Scenario(p)
    /\ call[p].pc = "body" /\ call[p].path = "renew"
    /\ nClose = 1
    /\ call[p].oldPool \notin connected
    /\ globalAccessToken = call[p].cfgToken
    /\ globalAccessToken # Null
    /\ globalSqlPool = call[p].used
    /\ globalSqlPool \in connected

\* The configuration of username/password mode with one of the two missing.
C11_Config ==
  /\ CfgBranch(env) = "sql"
  /\ env.SQL_USERNAME = "" \/ env.SQL_PASSWORD = ""
\* C11: in username/password mode with the username or the password
\* missing, a call of ensureSqlConnection fails with the configuration
\* error in the step in which it is made, before anything is awaited: no
\* token is asked for, nothing is closed, no sql.connect is called and the
\* shared pool stays as it was (absent).
C11_MissingSqlCredentials ==
  [][\A p \in Calls :
       (C11_Config /\ EnsureCalled(p)) =>
         /\ reply'.err = "SQL_USERNAME and SQL_PASSWORD required"
         /\ call'[p].pc = "done"
         /\ nResolve' = nResolve + 1
         /\ UNCHANGED <<globals, connected, opened, minted, nClose, nConnect>>
         /\ globalSqlPool' = Null /\ nConnect' = 0 /\ nClose' = 0]_vars
C11_Witness ==
  /\ env.SQL_USERNAME = "sa" /\ env.SQL_PASSWORD = ""
  /\ last.name = "read_data"
  /\ reply.out = CaughtEnvelope("SQL_USERNAME and SQL_PASSWORD required")
  /\ nResolve = 2 /\ nConnect = 0 /\ nClose = 0
  /\ globalSqlPool = Null

\* C12: every pool sql.connect has produced and that is still open is the
\* one installed in globalSqlPool.
C12_NoOrphanedConnections ==
  \A h \in 1..opened : h \in connected => h = globalSqlPool

\* How far a request has come: the awaits of one ensureSqlConnection in
\* the order of its text, then the tool body, then the handler's return.
Rank(pc) ==
  CASE pc = "idle" -> 0
    [] pc = "config" -> 1
    [] pc = "close" -> 2
    [] pc = "connect" -> 3
    [] pc = "body" -> 4
    [] pc = "done" -> 5
\* C13: one invocation of ensureSqlConnection moves forward only; it
\* calls createSqlConfig at most once (when it is entered, and not at all
\* when it reuses) and sql.connect at most once (when it comes to the
\* connect await, which it never comes to again); a sql.connect that fails
\* ends the request with that failure, and nothing is resolved or
\* connected in that step.
C13_NoAutomaticRetry ==
  [][/\ \A p, q \in Calls : (call'[p] # call[p] /\ call'[q] # call[q]) => p = q
     /\ nResolve' \in {nResolve, nResolve + 1}
     /\ nConnect' \in {nConnect, nConnect + 1}
     /\ nResolve' # nResolve =>
          \E p \in Calls : call[p].pc = "idle" /\ call'[p].pc # "idle"
     /\ nConnect' # nConnect =>
          \E p \in Calls : call[p].pc # "connect" /\ call'[p].pc = "connect"
     /\ \A p \in Calls :
          /\ call'[p] # call[p] => Rank(call'[p].pc) > Rank(call[p].pc)
          /\ (call[p].pc = "idle" /\ call'[p].path = "reuse") =>
               UNCHANGED counters
          /\ (call[p].pc = "connect" /\ call'[p].pc = "done") =>
               /\ reply'.out = CaughtEnvelope("connect failed")
               /\ UNCHANGED <<globals, connected, opened, counters>>]_vars
C13_Witness ==
  /\ reply.err = "connect failed"
  /\ nResolve = 1 /\ nConnect = 1 /\ nClose = 0
  /\ \A p \in Calls : call[p].pc \in {"idle", "done"}

\* Integrated-credential or username/password mode.
C14_Config == CfgBranch(env) \in {"windows", "sql"}
\* C14: in integrated-credential and username/password modes a call of
\* ensureSqlConnection reuses the shared pool exactly when it exists and
\* reports connected, touching nothing; otherwise it calls createSqlConfig
\* once, closes nothing and (unless the configuration is rejected) calls
\* sql.connect once.  The cached token and expiry stay null throughout
\* and no token is ever asked for.
C14_NonFederatedReuse ==
  [][C14_Config =>
       /\ globalAccessToken' = Null /\ globalTokenExpiresOn' = Null
       /\ minted' = 0
       /\ \A p \in Calls :
            EnsureCalled(p) =>
              IF globalSqlPool # Null /\ globalSqlPool \in connected
              THEN /\ call'[p].path = "reuse" /\ call'[p].pc = "body"
                   /\ call'[p].used = globalSqlPool
                   /\ UNCHANGED <<globals, connected, opened, counters>>
              ELSE /\ nResolve' = nResolve + 1
                   /\ nClose' = nClose
                   /\ UNCHANGED <<globals, connected, opened>>
                   /\ IF C11_Config
                      THEN call'[p].pc = "done" /\ nConnect' = nConnect
                      ELSE /\ call'[p].path = "renew"
                           /\ call'[p].pc = "connect"
                           /\ nConnect' = nConnect + 1]_vars
C14_Witness ==
  /\ CfgBranch(env) = "sql"
  /\ \E p, q \in Calls :
       /\ call[p].pc = "body" /\ call[p].path = "reuse"
       /\ call[q].pc = "body" /\ call[q].path = "renew"
       /\ call[p].used = call[q].used
  /\ nResolve = 1 /\ nConnect = 1
  /\ globalAccessToken = Null /\ globalTokenExpiresOn = Null

\* Nothing is resolved or connected while the module's top-level code runs,
\* nor by a step of the ListTools handler.
C15_NotBeforeToolCall ==
  /\ main' # "loop" =>
       nResolve' = 0 /\ nConnect' = 0 /\ opened' = 0 /\ minted' = 0
  /\ main # "loop" => UNCHANGED <<globals, connected, counters>>
  /\ listed' # {} =>
       UNCHANGED <<globals, connected, opened, minted, counters, call>>
\* C15 as stated: nothing is resolved or connected at startup or by
\* ListTools, and the first sql.connect is made by the request that made
\* the first createSqlConfig call: no request received before it has
\* called createSqlConfig.
C15_FirstCallResolvesAndConnects ==
  [][/\ C15_NotBeforeToolCall
     /\ \A p \in Calls :
          (nConnect = 0 /\ call[p].pc # "connect" /\ call'[p].pc = "connect") =>
            nResolve' <= 1 + Cardinality({q \in Calls : q > p /\ call[q].pc # "idle"})]_vars
\* C15, amended: nothing is resolved or connected at startup or by
\* ListTools; createSqlConfig is called only in the step that receives a
\* tool-call request which names a registered tool and passes the
\* handler's argument check, and the first such request calls it;
\* sql.connect is called only by a request that is being handled and has
\* called createSqlConfig.
C15_LazyConnection ==
  [][/\ C15_NotBeforeToolCall
     /\ nResolve' # nResolve =>
          /\ last'.name \in ToolNames
          /\ reply'.err \notin {"unknown tool", "invalid tableName"}
     /\ nConnect' # nConnect =>
          /\ nResolve' >= 1
          /\ \E p \in Calls :
               /\ call[p].pc # "connect"
               /\ call'[p].pc = "connect" /\ call'[p].path = "renew"
     /\ \A p \in Calls :
          (EnsureCalled(p) /\ nResolve = 0) => nResolve' = 1]_vars
C15_Witness ==
  /\ listed = ListedTools
  /\ call[1].pc = "done"
  /\ call[2].pc = "connect"
  /\ nResolve = 1 /\ nConnect = 1

\* C16: whatever the mode, the descriptor createSqlConfig returns carries
\* the configured server and database, the configured timeout (30 seconds
\* when unset) and a certificate-trust field equal to the
\* TRUST_SERVER_CERTIFICATE flag.
C16_UniformBaseFields ==
  resolved.ok =>
    /\ resolved.config.server = env.SERVER_NAME
    /\ resolved.config.database = env.DATABASE_NAME
    /\ resolved.config.connectionTimeout = ConnectionTimeout(env) * 1000
    /\ resolved.config.trustServerCertificate = TrustServerCertificate(env)

\* C17: federated mode: while the request that opened the installed pool
\* is still in its tool body, if the pool reports connected and the cached
\* lease is valid, the cached token is the one that pool was opened with.
C17_LeaseMatchesConnection ==
  \A p \in Calls :
    ( /\ EnsureAuthType(env) = "azure"
      /\ call[p].pc = "body" /\ call[p].path = "renew"
      /\ call[p].used = globalSqlPool
      /\ globalSqlPool \in connected
      /\ globalAccessToken # Null
      /\ globalTokenExpiresOn # Null
      /\ globalTokenExpiresOn > now + RefreshSkew )
    => globalAccessToken = call[p].cfgToken

\* C18: whenever createSqlConfig has gone the way that returns a bearer
\* token and expiry, ensureSqlConnection caches them, and a request reuses
\* a pool in such a configuration only under a valid cached lease.
C18_ClassificationAgrees ==
  [][\A p \in Calls :
       /\ (call[p].pc = "config" /\ call'[p].pc \in {"close", "connect"}) =>
            /\ globalAccessToken' = call'[p].cfgToken
            /\ globalTokenExpiresOn' # Null
       /\ (CfgAwaitsToken(env) /\ call[p].pc = "idle" /\ call'[p].path = "reuse") =>
            /\ globalAccessToken # Null
            /\ globalTokenExpiresOn # Null
            /\ globalTokenExpiresOn > now + RefreshSkew]_vars

\* C19: runServer() is called while no tool is patched, yet no request is
\* handled until the forEach has patched all eight tools; a tool body
\* starts only in a call whose ensureSqlConnection has returned, either at
\* once (reuse) or after its sql.connect succeeded (renew).
C19_WrappingPrecedesServing ==
  [][/\ main' = "forEach" => wrapped' = {}
     /\ main' # "loop" => \A p \in Calls : call'[p].pc = "idle"
     /\ (\E p \in Calls : call'[p] # call[p]) =>
          main = "loop" /\ wrapped = ToolNames
     /\ \A p \in Calls :
          (call[p].pc # "body" /\ call'[p].pc = "body") =>
            \/ /\ call[p].pc = "idle" /\ call'[p].path = "reuse"
               /\ globalSqlPool \in connected
               /\ UNCHANGED counters
            \/ /\ call[p].pc = "connect" /\ call[p].path = "renew"
               /\ call'[p].used = globalSqlPool']_vars
C19_Witness ==
  /\ main = "loop" /\ wrapped = ToolNames
  /\ last.name = "describe_table"
  /\ call[2].pc = "body" /\ call[2].path = "reuse"
  /\ call[1].pc = "body" /\ call[1].path = "renew"

====
